---- MODULE Spec2Model ----
(***************************************************************************)
(* Flooding broadcast engine (src/src/broadcast.js) and its bounded dedup  *)
(* set (src/src/time-lru-set.js).                                          *)
(*                                                                         *)
(* Both source files hold two revisions of their class, one after the      *)
(* other.  setRev selects the TimeLRUSet revision ("A": lines 1-164,       *)
(* "B": lines 166-278) and rev selects the Broadcast revision (1: lines    *)
(* 1-230, built on TimeLRUSet; 2: lines 232-498, built on nanoresource and *)
(* the npm 'lru' cache).                                                   *)
(***************************************************************************)
EXTENDS Integers, Sequences, FiniteSets, Bags, TLC

\* ------------------------------------------------------------------ bounds
MaxSizeBound == 3
MaxAgeBound == 2
MaxClearPending == 2
MaxPublish == 2
MaxExpire == 2
MaxDup == 1
MaxFail == 1
MaxInject == 2
MaxRun == 2
MaxStop == 2
MaxLookupFail == 1
MaxBad == 1

\* ------------------------------------------------------------ identifiers
Node == {1, 2, 3}
Seqno == {1}

\* msgId(seqno, from): `${seqno.toString('hex')}:${from.toString('hex')}`.
\* Hex digits never contain ':', so the string determines the pair and the
\* pair determines the string: the token is the pair.
msgId(seqno, from) == <<seqno, from>>

Token == Seqno \X Node

\* The values handed to the set when it is exercised on its own.
SetValue == {<<1, 1>>, <<1, 2>>, <<1, 3>>}

\* ------------------------------------------------------- sequence helpers
Range(s) == {s[i] : i \in 1..Len(s)}

\* Array.prototype.indexOf: first index holding v, 0 when there is none.
IndexOf(s, v) ==
  IF v \in Range(s) THEN CHOOSE i \in 1..Len(s) : s[i] = v /\ \A j \in 1..(i - 1) : s[j] # v
  ELSE 0

\* splice(idx, 1)
SpliceOut(s, idx) == [i \in 1..(Len(s) - 1) |-> IF i < idx THEN s[i] ELSE s[i + 1]]

\* idx = indexOf(v); if (idx !== -1) splice(idx, 1)
RemoveFirst(s, v) == IF IndexOf(s, v) = 0 THEN s ELSE SpliceOut(s, IndexOf(s, v))

\* ------------------------------------------------------------ TimeLRUSet
\* A set object: list is _list, keys is the key order of the Map _map
\* (insertion order), timer is the set of pending setTimeout handles, each
\* [value, left] for the ItemCache of that value, left being the time that
\* remains before it comes due.
EmptySet == [list |-> <<>>, keys |-> <<>>, timer |-> {}]

InMap(c, v) == v \in Range(c.keys)

SetSize(c) == Len(c.keys)

\* A clear that cancels nothing.
ItemClearNone(timer, v) == timer

\* ItemCache.clear: clearTimeout of the item's timer.
ItemClear(timer, v) == {t \in timer : t.value # v}

\* An update that leaves a pending timer of the value running.
ItemUpdateKeep(timer, v, age) ==
  IF \E t \in timer : t.value = v THEN timer ELSE timer \cup {[value |-> v, left |-> age]}

\* ItemCache.update: clear(), then setTimeout(onTimeout, maxAge).
ItemUpdate(timer, v, age) == ItemClear(timer, v) \cup {[value |-> v, left |-> age]}

\* A list that forgets to move a value it already holds.
UpdateLRUNoMove(list, v) == IF v \in Range(list) THEN list ELSE Append(list, v)

\* _updateLRU: drop the value from the list and push it at the end.
UpdateLRU(list, v) == Append(RemoveFirst(list, v), v)

\* A has whose hit also moves the value to the end of the Map's key order.
SetHasReorder(c, v, age) ==
  IF InMap(c, v)
  THEN [timer |-> ItemUpdate(c.timer, v, age), list |-> UpdateLRU(c.list, v),
        keys |-> UpdateLRU(c.keys, v)]
  ELSE c

\* has: a hit refreshes the timer and the LRU position.
SetHas(c, v, age) ==
  IF InMap(c, v)
  THEN [c EXCEPT !.timer = ItemUpdate(c.timer, v, age), !.list = UpdateLRU(c.list, v)]
  ELSE c

\* A delete that leaves the value in the list.
SetDeleteKeepList(c, v) ==
  IF ~InMap(c, v) THEN c
  ELSE [list |-> c.list, keys |-> RemoveFirst(c.keys, v), timer |-> ItemClear(c.timer, v)]

\* delete, revision A: false when absent; else clear the timer, drop the
\* map entry and the list entry.
SetDeleteA(c, v) ==
  IF ~InMap(c, v) THEN c
  ELSE [list |-> RemoveFirst(c.list, v),
        keys |-> RemoveFirst(c.keys, v),
        timer |-> ItemClear(c.timer, v)]

SetDeleteRetA(c, v) == IF InMap(c, v) THEN "true" ELSE "false"

\* delete, revision B: item.clear() on a missing item is a TypeError raised
\* before any change; nothing is returned otherwise.
SetDeleteB(c, v) ==
  IF ~InMap(c, v) THEN c
  ELSE [list |-> RemoveFirst(c.list, v),
        keys |-> RemoveFirst(c.keys, v),
        timer |-> ItemClear(c.timer, v)]

SetDeleteRetB(c, v) == IF InMap(c, v) THEN "undefined" ELSE "TypeError"

\* _deleteLRU, revision A: this.delete(this._list.shift()).
DeleteLRUA(c) ==
  IF c.list = <<>> THEN c
  ELSE SetDeleteA([c EXCEPT !.list = Tail(c.list)], Head(c.list))

\* _deleteLRU, revision B: value = shift(); if (value) delete(value).  Every
\* token is a non-empty string, so the guard only skips the empty list.
DeleteLRUB(c) ==
  IF c.list = <<>> THEN c
  ELSE SetDeleteB([c EXCEPT !.list = Tail(c.list)], Head(c.list))

\* The tail of add: new ItemCache, _map.set, item.update(), _updateLRU.
SetInsert(c, v, age) ==
  [list |-> UpdateLRU(c.list, v),
   keys |-> IF InMap(c, v) THEN c.keys ELSE Append(c.keys, v),
   timer |-> ItemUpdate(c.timer, v, age)]

FullOffByOne(c, size) == Len(c.list) > size

\* The eviction test of add: this._list.length === this._maxSize.
Full(c, size) == Len(c.list) = size

\* add, revision A: a present value is only touched; a full list loses its
\* head first.
SetAddA(c, v, age, size) ==
  IF InMap(c, v) THEN SetHas(c, v, age)
  ELSE SetInsert(IF Full(c, size) THEN DeleteLRUA(c) ELSE c, v, age)

\* add, revision B: the eviction test comes before the has test.
SetAddB(c, v, age, size) ==
  LET d == IF Full(c, size) THEN DeleteLRUB(c) ELSE c
  IN IF InMap(d, v) THEN SetHas(d, v, age) ELSE SetInsert(d, v, age)

\* clear (the body; revision B runs it in process.nextTick).
SetClear(c) == EmptySet

SetOnTimeoutNoDelete(c, tm) == [c EXCEPT !.timer = c.timer \ {tm}]

\* _onTimeout(value): this.delete(value), the timer itself being spent.
SetOnTimeoutA(c, tm) == SetDeleteA([c EXCEPT !.timer = c.timer \ {tm}], tm.value)

SetOnTimeoutB(c, tm) == SetDeleteB([c EXCEPT !.timer = c.timer \ {tm}], tm.value)

\* ------------------------------------------------- the set on its own
VARIABLES
  setRev,        \* revision of TimeLRUSet
  maxSize,       \* _maxSize
  maxAge,        \* _maxAge, in ticks
  set,           \* the set object
  clearPending,  \* revision B: number of clear() bodies queued by nextTick
  idle,          \* history: ticks since the last add / has hit of a present value
  recent,        \* history: the present values, least recently touched first
  last           \* history: the last call and what it returned

setVars == <<setRev, maxSize, maxAge, set, clearPending, idle, recent, last>>

\* ------------------------------------------------- the engines' state
VARIABLES
  rev,        \* revision of Broadcast
  pull,       \* middleware.lookup is defined
  adj,        \* the peer graph the middleware knows
  running,    \* _running (revision 1), opened (revision 2)
  cache,      \* _seenSeqs
  peers,      \* _peers
  looking,    \* revision 1: the lookup promise of _buildLookup is pending
  pubs,       \* suspended _publish calls: [pkt, stage, open0]
  net,        \* packets handed to send and not yet handed to a subscriber
  left,       \* what the environment may still do
  emitted,    \* history: number of 'packet' events per encoded packet
  got,        \* history: the messages handed to _onPacket while running
  sends,      \* history: number of send calls per (seqno, origin, neighbour)
  errs,       \* history: number of 'send-error' events per neighbour
  sent,       \* history: number of 'send' events per neighbour
  published,  \* history: the messages a running engine was asked to publish
  removed,    \* history: number of times a token left the cache
  markAt,     \* history: 1 + removed[token] when _onPacket last marked it; 0 = never
  opening,    \* revision 2: open() has called _open and has not completed yet
  closed,     \* revision 2: the resource is closed (it cannot be opened again)
  subs,       \* history: number of transport subscriptions not yet disposed
  disposed,   \* history: number of calls of the transport disposer
  results,    \* history: what the publish() calls settled with
  evs,        \* history: number of 'lookup-error', 'subscribe-error' events and of
              \* 'send-error' events emitted for a whole _publish call
  handled     \* history: what the _onPacket calls returned, per kind of input

\* The events and return values observed beside the sends.
obsVars == <<evs, handled>>

\* The lifecycle beyond the running flag.
lifeVars == <<opening, closed, subs, disposed>>

netVars == <<rev, pull, adj, running, cache, peers, looking, pubs, net, left,
             emitted, got, sends, errs, sent, published, removed, markAt,
             opening, closed, subs, disposed, results, evs, handled>>

vars == <<setRev, maxSize, maxAge, set, clearPending, idle, recent, last,
          rev, pull, adj, running, cache, peers, looking, pubs, net, left,
          emitted, got, sends, errs, sent, published, removed, markAt,
          opening, closed, subs, disposed, results, evs, handled>>

NoValue == <<0, 0>>

\* A call record: the operation, its argument, what it returned, and, as the
\* call began: whether the argument was present, how many values the set
\* held, the value inserted first and the value touched least recently.
Call(op, v, ret) == [op |-> op, value |-> v, ret |-> ret,
                     had |-> InMap(set, v), size0 |-> SetSize(set),
                     first |-> IF set.keys = <<>> THEN NoValue ELSE Head(set.keys),
                     lru |-> IF recent = <<>> THEN NoValue ELSE Head(recent)]

NoCall == [op |-> "none", value |-> NoValue, ret |-> "none", had |-> FALSE, size0 |-> 0,
           first |-> NoValue, lru |-> NoValue]

\* What a boolean reads as in a call record.
Bool(b) == IF b THEN "true" ELSE "false"

InitSet ==
  /\ setRev \in {"A", "B"}
  /\ maxSize \in 1..MaxSizeBound
  /\ maxAge \in 1..MaxAgeBound
  /\ set = EmptySet
  /\ clearPending = 0
  /\ idle = [v \in SetValue |-> 0]
  /\ recent = <<>>
  /\ last = NoCall

\* idle after a call that touched the values in T and left the set as c.
IdleAfter(c, T) == [v \in SetValue |-> IF v \in T \/ ~InMap(c, v) THEN 0 ELSE idle[v]]

\* recent after a call that touched the values in T (at most one) and left
\* the set as c: the touched value becomes the most recent, values that left
\* the set leave the order.
RECURSIVE Keep(_, _)
Keep(q, S) == IF q = <<>> THEN <<>>
              ELSE IF Head(q) \in S THEN <<Head(q)>> \o Keep(Tail(q), S)
              ELSE Keep(Tail(q), S)

RecentAfter(c, T) ==
  Keep(recent, Range(c.keys) \ T) \o Keep(c.keys, T)

\* timeSet.add(v)
Add(v) ==
  /\ set' = IF setRev = "A" THEN SetAddA(set, v, maxAge, maxSize)
            ELSE SetAddB(set, v, maxAge, maxSize)
  /\ idle' = IdleAfter(set', {v})
  /\ recent' = RecentAfter(set', {v})
  /\ last' = Call("add", v, "this")
  /\ UNCHANGED <<netVars, setRev, maxSize, maxAge, clearPending>>

\* timeSet.has(v)
Has(v) ==
  /\ set' = SetHas(set, v, maxAge)
  /\ idle' = IdleAfter(set', {v})
  /\ recent' = RecentAfter(set', {v})
  /\ last' = Call("has", v, Bool(InMap(set, v)))
  /\ UNCHANGED <<netVars, setRev, maxSize, maxAge, clearPending>>

\* timeSet.delete(v)
Delete(v) ==
  /\ set' = IF setRev = "A" THEN SetDeleteA(set, v) ELSE SetDeleteB(set, v)
  /\ idle' = IdleAfter(set', {})
  /\ recent' = RecentAfter(set', {})
  /\ last' = Call("delete", v,
                   IF setRev = "A" THEN SetDeleteRetA(set, v) ELSE SetDeleteRetB(set, v))
  /\ UNCHANGED <<netVars, setRev, maxSize, maxAge, clearPending>>

\* timeSet.clear(): revision A clears at once, revision B queues the body.
Clear ==
  /\ IF setRev = "A"
     THEN set' = SetClear(set) /\ UNCHANGED clearPending
     ELSE clearPending < MaxClearPending /\ clearPending' = clearPending + 1 /\ UNCHANGED set
  /\ idle' = IdleAfter(set', {})
  /\ recent' = RecentAfter(set', {})
  /\ last' = Call("clear", NoValue, "undefined")
  /\ UNCHANGED <<netVars, setRev, maxSize, maxAge>>

\* The callback revision B handed to process.nextTick.
ClearTick ==
  /\ clearPending > 0
  /\ clearPending' = clearPending - 1
  /\ set' = SetClear(set)
  /\ idle' = IdleAfter(set', {})
  /\ recent' = RecentAfter(set', {})
  /\ last' = Call("clearTick", NoValue, "undefined")
  /\ UNCHANGED <<netVars, setRev, maxSize, maxAge>>

\* A timer set by ItemCache.update comes due and runs _onTimeout.  Timers run
\* after the nextTick queue has drained.
Timeout(tm) ==
  /\ tm \in set.timer
  /\ tm.left = 0
  /\ clearPending = 0
  /\ set' = IF setRev = "A" THEN SetOnTimeoutA(set, tm) ELSE SetOnTimeoutB(set, tm)
  /\ idle' = IdleAfter(set', {})
  /\ recent' = RecentAfter(set', {})
  /\ last' = Call("timeout", tm.value, "undefined")
  /\ UNCHANGED <<netVars, setRev, maxSize, maxAge, clearPending>>

\* One tick of time passes: every pending timer has one tick less to run.  A
\* due timer runs before the clock moves on, and the nextTick queue drains
\* within the current instant.
Tick ==
  /\ clearPending = 0
  /\ \A tm \in set.timer : tm.left > 0
  /\ set' = [set EXCEPT !.timer = {[value |-> tm.value, left |-> tm.left - 1] : tm \in set.timer}]
  /\ idle' = [v \in SetValue |->
                IF InMap(set, v) /\ idle[v] <= maxAge THEN idle[v] + 1 ELSE idle[v]]
  /\ recent' = recent
  /\ last' = Call("tick", NoValue, "none")
  /\ UNCHANGED <<netVars, setRev, maxSize, maxAge, clearPending>>

NextSet ==
  \/ \E v \in SetValue : Add(v)
  \/ \E v \in SetValue : Has(v)
  \/ \E v \in SetValue : Delete(v)
  \/ Clear
  \/ ClearTick
  \/ \E tm \in set.timer : Timeout(tm)
  \/ Tick

\* ------------------------------------------------------------ the 'lru' cache
\* Revision 2 keeps its tokens in new LRU({ maxAge, max: maxSize }) of the
\* npm package 'lru'.  The list holds the keys, least recently used first.
\* The package has no timers: an entry older than maxAge is dropped by the
\* get that finds it.  aged is the set of keys whose age check fails.

\* get(key): [c, hit, exp]: the cache after the call, whether a value came
\* back, and how many entries the age check dropped.
LruGet(c, k, aged) ==
  IF k \notin Range(c.list) THEN [c |-> c, hit |-> FALSE, exp |-> 0]
  ELSE IF k \in aged
       THEN [c |-> [c EXCEPT !.list = RemoveFirst(c.list, k)], hit |-> FALSE, exp |-> 1]
       ELSE [c |-> [c EXCEPT !.list = UpdateLRU(c.list, k)], hit |-> TRUE, exp |-> 0]

\* set(key, true): a present key is refreshed and promoted; a new key evicts
\* the least recently used entry when length === max.
LruSet(c, k, max) ==
  IF k \in Range(c.list) THEN [c EXCEPT !.list = UpdateLRU(c.list, k)]
  ELSE [c EXCEPT !.list = Append(IF Len(c.list) = max THEN Tail(c.list) ELSE c.list, k)]

\* ---------------------------------------------------------------- the network
Msg == Seqno \X Node                 \* message identity (seqno, origin)

Edge == Seqno \X Node \X Node        \* (seqno, origin, neighbour)

Wire == Seqno \X Node \X Node        \* an encoded packet (seqno, origin, from)

Triangle == [n \in Node |-> Node \ {n}]

Line == [n \in Node |-> IF n = 2 THEN {1, 3} ELSE {2}]

Graphs == {Triangle, Line}

\* Every order in which a directory may list the peers in S.
Orders(S) == {q \in UNION {[1..k -> S] : k \in 0..Cardinality(S)} :
                Len(q) = Cardinality(S) /\ Range(q) = S}

\* The lists a lookup (or a peers push) may answer: the peers in any order,
\* or only the list sorted by id when the directory keeps it sorted.
Listings(S, any) == IF any THEN Orders(S)
                    ELSE {q \in Orders(S) : \A i \in 1..Len(q), j \in 1..Len(q) : i < j => q[i] < q[j]}

\* What an application may pass as data and as seqno.
Input == {"buffer", "string"}

\* What the environment may do in one run: publish calls, timer expiries (or
\* failed age checks), packets the transport hands over twice, failed sends; who are the peers
\* whose application publishes; any tells whether the directory lists the
\* peers in any order.
Scenarios ==
  {[pub |-> MaxPublish, exp |-> 0, dup |-> 0, fail |-> 0, inj |-> 0, run |-> 0, stop |-> 0, lfail |-> 0, bad |-> 0, input |-> {"buffer"}, who |-> Node, any |-> FALSE],
   [pub |-> 1, exp |-> MaxExpire, dup |-> 0, fail |-> 0, inj |-> 0, run |-> 0, stop |-> 0, lfail |-> 0, bad |-> 0, input |-> {"buffer"}, who |-> Node, any |-> FALSE],
   [pub |-> 1, exp |-> 0, dup |-> MaxDup, fail |-> 0, inj |-> 0, run |-> 0, stop |-> 0, lfail |-> 0, bad |-> 0, input |-> {"buffer"}, who |-> Node, any |-> FALSE],
   [pub |-> 1, exp |-> 0, dup |-> 0, fail |-> MaxFail, inj |-> 0, run |-> 0, stop |-> 0, lfail |-> 0, bad |-> 0, input |-> {"buffer"}, who |-> Node, any |-> FALSE]}

\* The same for one engine whose neighbours are the environment: it is also
\* handed packets from elsewhere (inj).
NodeScenarios ==
  {[pub |-> 0, exp |-> 0, dup |-> 0, fail |-> 0, inj |-> MaxInject, run |-> 0, stop |-> 0, lfail |-> 0, bad |-> 0, input |-> {"buffer"}, who |-> {1}, any |-> TRUE],
   [pub |-> 0, exp |-> MaxExpire, dup |-> 0, fail |-> 0, inj |-> MaxInject, run |-> 0, stop |-> 0, lfail |-> 0, bad |-> 0, input |-> {"buffer"}, who |-> {1}, any |-> TRUE],
   [pub |-> 0, exp |-> 0, dup |-> MaxDup, fail |-> 0, inj |-> 1, run |-> 0, stop |-> 0, lfail |-> 0, bad |-> 0, input |-> {"buffer"}, who |-> {1}, any |-> TRUE],
   [pub |-> 1, exp |-> 0, dup |-> 0, fail |-> MaxFail, inj |-> 1, run |-> 0, stop |-> 0, lfail |-> 0, bad |-> 0, input |-> {"buffer"}, who |-> {1}, any |-> TRUE]}

\* maxSize of an engine built without options.maxSize.
DefaultMaxSize(r) == IF r = 1 THEN 200 ELSE 1000

\* A packet: from = 0 while the publisher has not stamped it yet.
Pkt(s, o, f) == [seqno |-> s, origin |-> o, from |-> f]

\* The events counted in evs.
Event == {"lookup-error", "subscribe-error", "send-error"}

NetStart ==
  /\ cache = [n \in Node |-> EmptySet]
  /\ peers = [n \in Node |-> <<>>]
  /\ looking = [n \in Node |-> FALSE]
  /\ pubs = [n \in Node |-> <<>>]
  /\ net = EmptyBag
  /\ emitted = [n \in Node |-> [w \in Wire |-> 0]]
  /\ got = [n \in Node |-> {}]
  /\ sends = [n \in Node |-> [e \in Edge |-> 0]]
  /\ errs = [n \in Node |-> [p \in Node |-> 0]]
  /\ sent = [n \in Node |-> [p \in Node |-> 0]]
  /\ published = {}
  /\ removed = [n \in Node |-> [t \in Token |-> 0]]
  /\ markAt = [n \in Node |-> [t \in Token |-> 0]]
  /\ opening = [n \in Node |-> FALSE]
  /\ closed = [n \in Node |-> FALSE]
  /\ subs = [n \in Node |-> IF running[n] THEN 1 ELSE 0]
  /\ disposed = [n \in Node |-> 0]
  /\ results = {}
  /\ evs = [n \in Node |-> [k \in Event |-> 0]]
  /\ handled = {}

\* The peers as the tests build them: each Peer constructs its Broadcast and
\* calls run() (src/unnamed/part_001 lines 32-41).
InitNet ==
  /\ rev \in {1, 2}
  /\ pull \in BOOLEAN
  /\ rev = 1 => pull
  /\ adj \in Graphs
  /\ maxSize = DefaultMaxSize(rev)
  /\ running = [n \in Node |-> TRUE]
  /\ left \in Scenarios
  /\ NetStart

\* One running engine (node 1) built with a small maxSize; the other ids are
\* neighbours the environment plays.
InitNode ==
  /\ rev \in {1, 2}
  /\ pull \in BOOLEAN
  /\ rev = 1 => pull
  /\ adj \in Graphs
  /\ maxSize \in 1..MaxSizeBound
  /\ running = [n \in Node |-> n = 1]
  /\ left \in NodeScenarios
  /\ NetStart

\* The variables of the stand-alone set while the engines run: each engine
\* owns its set (cache[n]), built with the configured maxSize.
SetIdle ==
  /\ setRev = "A" /\ maxAge = 0 /\ set = EmptySet
  /\ clearPending = 0 /\ idle = [v \in SetValue |-> 0] /\ recent = <<>> /\ last = NoCall

\* The variables of the engines while the set is exercised on its own.
NetIdle ==
  /\ rev = 1 /\ pull = TRUE /\ adj = Line
  /\ running = [n \in Node |-> FALSE]
  /\ left = [pub |-> 0, exp |-> 0, dup |-> 0, fail |-> 0, inj |-> 0, run |-> 0, stop |-> 0, lfail |-> 0, bad |-> 0, input |-> {"buffer"}, who |-> {}, any |-> FALSE]
  /\ NetStart

Present(c) == Range(c.list)

\* removed after the cache went from c to d in one call.
Bump(rm, c, d) == [t \in Token |-> rm[t] + IF t \in Present(c) /\ t \notin Present(d) THEN 1 ELSE 0]

InFlight == BagToSet(net)

\* The transport hands a packet to the subscriber; it may hand the same
\* bytes again later (keep).
Handover(m, keep) ==
  /\ BagIn(m, net)
  /\ keep => left.dup > 0
  /\ net' = IF keep THEN net ELSE net (-) SetToBag({m})
  /\ left' = IF keep THEN [left EXCEPT !.dup = @ - 1] ELSE left

\* A packet that keeps the sender it came with.
StampKeep(pkt, n) == pkt

\* Object.assign({}, packet, { from: this._id }): the copy that goes out
\* names this engine as its sender.
Stamp(pkt, n) == [pkt EXCEPT !.from = n]

\* A 'send' event for every send that was called, settled either way.
SendEventsAll(st, fail) == IF rev = 2 THEN st.out ELSE {}

\* The neighbours a fan-out emits 'send' for: those whose send resolved (the
\* .then of the send promise; its .catch emits 'send-error' for the others).
\* The first revision has no 'send' event.
SendEvents(st, fail) == IF rev = 2 THEN st.out \ fail ELSE {}

\* A fan-out that gives up at a failed send: only the failed sends are made.
DispatchAbort(n, pkt, st, fail) ==
  /\ fail \subseteq st.out
  /\ Cardinality(fail) <= left.fail
  /\ st.exp <= left.exp
  /\ left' = [left EXCEPT !.fail = @ - Cardinality(fail), !.exp = @ - st.exp]
  /\ cache' = [cache EXCEPT ![n] = st.c]
  /\ removed' = [removed EXCEPT ![n] = st.rm]
  /\ errs' = [errs EXCEPT ![n] = [p \in Node |-> @[p] + IF p \in fail THEN 1 ELSE 0]]
  /\ sent' = [sent EXCEPT ![n] = [p \in Node |-> @[p] + IF p \in SendEvents(st, fail) THEN 1 ELSE 0]]
  /\ sends' = [sends EXCEPT ![n] = [e \in Edge |->
                 @[e] + IF e[1] = pkt.seqno /\ e[2] = pkt.origin
                            /\ e[3] \in (IF fail = {} THEN st.out ELSE fail) THEN 1 ELSE 0]]
  /\ net' = net (+) SetToBag({[to |-> p, pkt |-> Stamp(pkt, n)] :
                               p \in (IF fail = {} THEN st.out ELSE {})})

\* What a fan-out by n of pkt leaves behind.  st = [c, rm, out, exp]: the
\* cache, the removal counts, the peers send was called for and the number
\* of failed age checks.  The sends in fail reject ('send-error'), the others
\* put a packet stamped from = n in flight.
Dispatch(n, pkt, st, fail) ==
  /\ fail \subseteq st.out
  /\ Cardinality(fail) <= left.fail
  /\ st.exp <= left.exp
  /\ left' = [left EXCEPT !.fail = @ - Cardinality(fail), !.exp = @ - st.exp]
  /\ cache' = [cache EXCEPT ![n] = st.c]
  /\ removed' = [removed EXCEPT ![n] = st.rm]
  /\ errs' = [errs EXCEPT ![n] = [p \in Node |-> @[p] + IF p \in fail THEN 1 ELSE 0]]
  /\ sent' = [sent EXCEPT ![n] = [p \in Node |-> @[p] + IF p \in SendEvents(st, fail) THEN 1 ELSE 0]]
  /\ sends' = [sends EXCEPT ![n] = [e \in Edge |->
                 @[e] + IF e[1] = pkt.seqno /\ e[2] = pkt.origin /\ e[3] \in st.out THEN 1 ELSE 0]]
  /\ net' = net (+) SetToBag({[to |-> p, pkt |-> Stamp(pkt, n)] : p \in st.out \ fail})

\* What a publish() call settled with: the engine, whether it was open when
\* the call was made, the kind of outcome (the promise resolves to undefined
\* or to a packet, or rejects) and the packet.
NoPkt == [seqno |-> 0, origin |-> 0, from |-> 0]

Result(n, open0, kind, pkt) == [n |-> n, open0 |-> open0, kind |-> kind, pkt |-> pkt]

\* The _publish call e of engine n returns: publish() settles with it when e
\* is the engine's own message (no from yet); the forward of _onPacket drops
\* what _publish returns.
Settle(n, e, kind, pkt) ==
  results' = IF e.pkt.from = 0 THEN results \cup {Result(n, e.open0, kind, pkt)} ELSE results

\* ------------------------------------------------------ revision 1 engine
\* The timers of an engine's set run at an arbitrary later time: the set is
\* built with age 0 and Expire1 may run any pending timer.
NetAge == 0

\* this._seenSeqs.add(msgId(packet.seqno, packet.from)) in _onPacket.
MarkFromSkipped(c, pkt) == c

MarkFrom1(c, pkt) == SetAddA(c, msgId(pkt.seqno, pkt.from), NetAge, maxSize)

\* this._seenSeqs.has(msgId(message.seqno, peer.id)) in the fan-out loop.
PeerSeenNever(c, s, p) == FALSE

PeerSeen1(c, s, p) == InMap(c, msgId(s, p))

\* this._seenSeqs.add(msgId(message.seqno, peer.id)) in the fan-out loop.
MarkPeerSkipped(c, s, p) == c

MarkPeer1(c, s, p) == SetAddA(c, msgId(s, p), NetAge, maxSize)

\* _publish up to its first await: mark (seqno, me) as seen and start (or
\* join) the lookup.  c and rm are the cache and the removal counts so far.
BeginPublish1(n, c, rm, pkt) ==
  LET d == SetAddA(c, msgId(pkt.seqno, n), NetAge, maxSize)
  IN /\ cache' = [cache EXCEPT ![n] = d]
     /\ removed' = [removed EXCEPT ![n] = Bump(rm, c, d)]
     /\ looking' = [looking EXCEPT ![n] = TRUE]
     /\ pubs' = [pubs EXCEPT ![n] = Append(@, [pkt |-> pkt, stage |-> "lookup", open0 |-> TRUE])]

\* if (!this._running) in publish.
CanPublishAlways(n) == TRUE

CanPublish1(n) == running[n]

\* publish(data, { seqno }): a warning and nothing else when not running;
\* the promise resolves to undefined.
Publish1(n, s) ==
  /\ rev = 1
  /\ left.pub > 0
  /\ n \in left.who
  /\ left' = [left EXCEPT !.pub = @ - 1]
  /\ IF CanPublish1(n)
     THEN /\ BeginPublish1(n, cache[n], removed[n], Pkt(s, n, 0))
          /\ published' = published \cup {<<s, n>>}
          /\ UNCHANGED results
     ELSE /\ results' = results \cup {Result(n, FALSE, "undefined", NoPkt)}
          /\ UNCHANGED <<cache, removed, looking, pubs, published>>
  /\ UNCHANGED <<setVars, obsVars, lifeVars, rev, pull, adj, running, peers, net, emitted, got, sends, errs, sent, markAt>>

\* if (!this._running) return / if (!this.opened) return, in _onPacket.
ListeningAlways(n) == TRUE

Listening(n) == running[n]

\* _onPacket returns ret for an input of this kind.
Returned(kind, ret) == handled' = handled \cup {[kind |-> kind, ret |-> ret]}

\* One more event k at engine n.
EmitNothing(n, k) == evs' = evs

Emit(n, k) == evs' = [evs EXCEPT ![n][k] = @ + 1]

\* _onPacket: mark (seqno, from); drop the packet when (seqno, me) is seen
\* (it returns nothing then); else emit 'packet', _publish it and return true.
OnPacket1(n, m, keep) ==
  /\ rev = 1
  /\ m.to = n
  /\ Handover(m, keep)
  /\ IF ~Listening(n)
     THEN /\ Returned("closed", "undefined")
          /\ UNCHANGED <<cache, removed, looking, pubs, emitted, got, markAt>>
     ELSE LET pkt == m.pkt
              from == msgId(pkt.seqno, pkt.from)
              me == msgId(pkt.seqno, n)
              c1 == MarkFrom1(cache[n], pkt)
              rm1 == Bump(removed[n], cache[n], c1)
          IN /\ got' = [got EXCEPT ![n] = @ \cup {<<pkt.seqno, pkt.origin>>}]
             /\ markAt' = [markAt EXCEPT ![n][from] = rm1[from] + 1]
             /\ IF InMap(c1, me)
                THEN /\ cache' = [cache EXCEPT ![n] = SetHas(c1, me, NetAge)]
                     /\ removed' = [removed EXCEPT ![n] = rm1]
                     /\ Returned("duplicate", "undefined")
                     /\ UNCHANGED <<looking, pubs, emitted>>
                ELSE /\ emitted' = [emitted EXCEPT
                                      ![n][<<pkt.seqno, pkt.origin, pkt.from>>] = @ + 1]
                     /\ BeginPublish1(n, c1, rm1, pkt)
                     /\ Returned("novel", "true")
  /\ UNCHANGED <<setVars, evs, lifeVars, results, published, rev, pull, adj, running, peers, sends, errs, sent>>

\* The lookup promise settles: every _lookup() call waiting on it stores the
\* peers and lets its _publish go on.
LookupDone1(n) ==
  /\ rev = 1
  /\ looking[n]
  /\ \E q \in Listings(adj[n], left.any) : peers' = [peers EXCEPT ![n] = q]
  /\ looking' = [looking EXCEPT ![n] = FALSE]
  /\ pubs' = [pubs EXCEPT ![n] = [i \in 1..Len(@) |-> [@[i] EXCEPT !.stage = "ready"]]]
  /\ UNCHANGED <<setVars, obsVars, lifeVars, results, published, rev, pull, adj, running, cache, net, left,
                 emitted, got, sends, errs, sent, removed, markAt>>

\* The fan-out loop of _publish over the peers ps[i..]: skip a peer whose
\* token is seen, else add the token and call send.
RECURSIVE Loop1(_, _, _, _)
Loop1(st, s, ps, i) ==
  IF i > Len(ps) THEN st
  ELSE LET tok == msgId(s, ps[i])
       IN IF PeerSeen1(st.c, s, ps[i])
          THEN Loop1([st EXCEPT !.c = SetHas(st.c, tok, NetAge)], s, ps, i + 1)
          ELSE LET d == MarkPeer1(st.c, s, ps[i])
               IN Loop1([st EXCEPT !.c = d, !.rm = Bump(st.rm, st.c, d),
                                   !.out = st.out \cup {ps[i]}],
                        s, ps, i + 1)

\* A fan-out that goes on whatever the state of the engine.
StillOpenAlways(n) == TRUE

\* The test made for each peer of the fan-out: `if (!this._running) return`,
\* `if (!this.opened) return`.
StillOpen(n) == running[n]

\* _publish after await this._lookup(): stamp from, encode, fan out.
FanOut1(n) ==
  /\ rev = 1
  /\ pubs[n] # <<>>
  /\ Head(pubs[n]).stage = "ready"
  /\ pubs' = [pubs EXCEPT ![n] = Tail(@)]
  /\ IF ~StillOpen(n)
     THEN UNCHANGED <<cache, removed, sends, errs, sent, net, left>>
     ELSE \E st \in {Loop1([c |-> cache[n], rm |-> removed[n], out |-> {}, exp |-> 0],
                             Head(pubs[n]).pkt.seqno, peers[n], 1)} :
            \E fail \in SUBSET st.out : Dispatch(n, Head(pubs[n]).pkt, st, fail)
  /\ Settle(n, Head(pubs[n]), "undefined", NoPkt)
  /\ UNCHANGED <<setVars, obsVars, lifeVars, published, rev, pull, adj, running, peers, looking, emitted, got, markAt>>

\* A timer of the engine's set runs: _onTimeout deletes the token.
Expire1(n, tm) ==
  /\ rev = 1
  /\ tm \in cache[n].timer
  /\ left.exp > 0
  /\ left' = [left EXCEPT !.exp = @ - 1]
  /\ cache' = [cache EXCEPT ![n] = SetOnTimeoutA(@, tm)]
  /\ removed' = [removed EXCEPT ![n] = Bump(@, cache[n], SetOnTimeoutA(cache[n], tm))]
  /\ UNCHANGED <<setVars, obsVars, lifeVars, results, published, rev, pull, adj, running, peers, looking, pubs, net,
                 emitted, got, sends, errs, sent, markAt>>

Next1 ==
  \/ \E n \in Node, s \in Seqno : "buffer" \in left.input /\ Publish1(n, s)
  \/ \E n \in Node, m \in InFlight, keep \in BOOLEAN : OnPacket1(n, m, keep)
  \/ \E n \in Node : LookupDone1(n)
  \/ \E n \in Node : FanOut1(n)
  \/ \E n \in Node : \E tm \in cache[n].timer : Expire1(n, tm)

\* ------------------------------------------------------ revision 2 engine
\* The index of the first _publish call still waiting on await this.open().
FirstOpen(q) == CHOOSE i \in 1..Len(q) : q[i].stage = "open" /\ \A j \in 1..(i - 1) : q[j].stage # "open"

\* The fan-out loop of _publish over the peers ps[i..]: skip the origin and
\* any peer whose token get() finds, else set the token and call send.
RECURSIVE Loop2(_, _, _, _, _)
Loop2(st, pkt, ps, i, aged) ==
  IF i > Len(ps) THEN st
  ELSE IF pkt.origin = ps[i] THEN Loop2(st, pkt, ps, i + 1, aged)
  ELSE LET tok == msgId(pkt.seqno, ps[i])
           g == LruGet(st.c, tok, aged)
           d == LruSet(g.c, tok, maxSize)
       IN IF g.hit
          THEN Loop2([st EXCEPT !.c = g.c], pkt, ps, i + 1, aged)
          ELSE Loop2([c |-> d, rm |-> Bump(Bump(st.rm, st.c, g.c), g.c, d),
                      out |-> st.out \cup {ps[i]}, exp |-> st.exp + g.exp],
                     pkt, ps, i + 1, aged)

\* this.open() of the resource: rejected once closed; nothing to do while
\* open or opening; else _open runs at once (it subscribes) and the resource
\* is opening until the call completes.
OpenRejected(n) == closed[n]

Open2(n) ==
  IF running[n] \/ opening[n] \/ OpenRejected(n)
  THEN UNCHANGED <<opening, subs>>
  ELSE /\ opening' = [opening EXCEPT ![n] = TRUE]
       /\ subs' = [subs EXCEPT ![n] = @ + 1]

\* publish(data, { seqno }): _publish calls this.open() and suspends on it;
\* on a closed resource open() rejects and so does publish.
Publish2(n, s) ==
  /\ rev = 2
  /\ left.pub > 0
  /\ n \in left.who
  /\ left' = [left EXCEPT !.pub = @ - 1]
  /\ Open2(n)
  /\ IF OpenRejected(n)
     THEN /\ results' = results \cup {Result(n, FALSE, "rejected", NoPkt)}
          /\ UNCHANGED <<pubs, published>>
     ELSE /\ pubs' = [pubs EXCEPT ![n] = Append(@, [pkt |-> Pkt(s, n, 0), stage |-> "open",
                                                     open0 |-> running[n]])]
          /\ published' = published \cup {<<s, n>>}
          /\ UNCHANGED results
  /\ UNCHANGED <<setVars, obsVars, closed, disposed, rev, pull, adj, running, cache, peers, looking, net,
                 emitted, got, sends, errs, sent, removed, markAt>>

\* _publish after await this.open(), which was called while the resource was
\* open or opening: return when (seqno, me) is seen; else set it, then wait
\* for the lookup (pull) or fan out at once (push).  There is no test of
\* this.opened before the fan-out loop, where each peer is skipped once the
\* resource is no longer open.
PubOpen2(n, aged) ==
  /\ rev = 2
  /\ ~opening[n]
  /\ \E i \in 1..Len(pubs[n]) : pubs[n][i].stage = "open"
  /\ LET i == FirstOpen(pubs[n])
         pkt == pubs[n][i].pkt
         me == msgId(pkt.seqno, n)
         g == LruGet(cache[n], me, aged)
         c1 == LruSet(g.c, me, maxSize)
         rm1 == Bump(Bump(removed[n], cache[n], g.c), g.c, c1)
     IN IF g.hit
        THEN /\ pubs' = [pubs EXCEPT ![n] = SpliceOut(@, i)]
             /\ cache' = [cache EXCEPT ![n] = g.c]
             /\ aged = {}
             /\ Settle(n, pubs[n][i], "undefined", NoPkt)
             /\ UNCHANGED <<removed, sends, errs, sent, net, left>>
        ELSE IF pull
        THEN /\ pubs' = [pubs EXCEPT ![n][i].stage = "lookup"]
             /\ cache' = [cache EXCEPT ![n] = c1]
             /\ removed' = [removed EXCEPT ![n] = rm1]
             /\ Cardinality(aged) = g.exp /\ g.exp <= left.exp
             /\ left' = [left EXCEPT !.exp = @ - g.exp]
             /\ UNCHANGED <<sends, errs, sent, net, results>>
        ELSE /\ pubs' = [pubs EXCEPT ![n] = SpliceOut(@, i)]
             /\ Settle(n, pubs[n][i], "packet", Stamp(pkt, n))
             /\ \E st \in {Loop2([c |-> c1, rm |-> rm1, out |-> {}, exp |-> g.exp],
                                   pkt, IF StillOpen(n) THEN peers[n] ELSE <<>>, 1, aged)} :
                  /\ Cardinality(aged) = st.exp
                  /\ \E fail \in SUBSET st.out : Dispatch(n, pkt, st, fail)
  /\ UNCHANGED <<setVars, obsVars, lifeVars, published, rev, pull, adj, running, peers, looking,
                 emitted, got, markAt>>

\* this.updatePeers(await this._lookup()), then the fan-out.
LookupDone2(n, i, aged) ==
  /\ rev = 2
  /\ i \in 1..Len(pubs[n])
  /\ pubs[n][i].stage = "lookup"
  /\ pubs' = [pubs EXCEPT ![n] = SpliceOut(@, i)]
  /\ Settle(n, pubs[n][i], "packet", Stamp(pubs[n][i].pkt, n))
  /\ \E q \in Listings(adj[n], left.any) :
       /\ peers' = [peers EXCEPT ![n] = q]
       /\ IF ~StillOpen(n)
          THEN aged = {} /\ UNCHANGED <<cache, removed, sends, errs, sent, net, left>>
          ELSE \E st \in {Loop2([c |-> cache[n], rm |-> removed[n], out |-> {}, exp |-> 0],
                                  pubs[n][i].pkt, q, 1, aged)} :
                 /\ Cardinality(aged) = st.exp
                 /\ \E fail \in SUBSET st.out : Dispatch(n, pubs[n][i].pkt, st, fail)
  /\ UNCHANGED <<setVars, obsVars, lifeVars, published, rev, pull, adj, running, looking, emitted, got, markAt>>

\* The middleware pushes the peer list through onPeers (no lookup given).
UpdatePeers2(n, q) ==
  /\ rev = 2
  /\ ~pull
  /\ running[n]
  /\ q \in Listings(adj[n], left.any)
  /\ Range(peers[n]) # Range(q)
  /\ peers' = [peers EXCEPT ![n] = q]
  /\ UNCHANGED <<setVars, obsVars, lifeVars, results, published, rev, pull, adj, running, cache, looking, pubs, net, left,
                 emitted, got, sends, errs, sent, removed, markAt>>

\* this._peers.find(peer => peer.id.equals(packet.from)) found a peer.
KnownPeer(n, f) == f \in Range(peers[n])

\* _onPacket: ignore my own messages; set (seqno, from); drop the packet
\* when get finds (seqno, me); throw 'peer not found' for an unknown sender
\* ('subscribe-error'); else emit 'packet' and _publish it.
OnPacket2(n, m, keep, aged) ==
  /\ rev = 2
  /\ m.to = n
  /\ BagIn(m, net)
  /\ keep => left.dup > 0
  /\ net' = IF keep THEN net ELSE net (-) SetToBag({m})
  /\ IF ~Listening(n) \/ m.pkt.origin = n
     THEN /\ aged = {}
          /\ got' = [got EXCEPT ![n] = IF Listening(n)
                                        THEN @ \cup {<<m.pkt.seqno, m.pkt.origin>>} ELSE @]
          /\ left' = [left EXCEPT !.dup = IF keep THEN @ - 1 ELSE @]
          /\ Returned(IF Listening(n) THEN "own" ELSE "closed", "undefined")
          /\ UNCHANGED <<cache, removed, pubs, emitted, markAt, evs>>
     ELSE LET pkt == m.pkt
              from == msgId(pkt.seqno, pkt.from)
              c1 == LruSet(cache[n], from, maxSize)
              rm1 == Bump(removed[n], cache[n], c1)
              g == LruGet(c1, msgId(pkt.seqno, n), aged)
          IN /\ Cardinality(aged) = g.exp /\ g.exp <= left.exp
             /\ left' = [left EXCEPT !.dup = IF keep THEN @ - 1 ELSE @, !.exp = @ - g.exp]
             /\ got' = [got EXCEPT ![n] = @ \cup {<<pkt.seqno, pkt.origin>>}]
             /\ markAt' = [markAt EXCEPT ![n][from] = rm1[from] + 1]
             /\ cache' = [cache EXCEPT ![n] = g.c]
             /\ removed' = [removed EXCEPT ![n] = Bump(rm1, c1, g.c)]
             /\ IF g.hit
                THEN /\ Returned("duplicate", "undefined")
                     /\ UNCHANGED <<pubs, emitted, evs>>
                ELSE IF ~KnownPeer(n, pkt.from)
                THEN /\ Emit(n, "subscribe-error")
                     /\ Returned("unknown", "undefined")
                     /\ UNCHANGED <<pubs, emitted>>
                ELSE /\ emitted' = [emitted EXCEPT
                                      ![n][<<pkt.seqno, pkt.origin, pkt.from>>] = @ + 1]
                     /\ pubs' = [pubs EXCEPT ![n] = Append(@, [pkt |-> pkt, stage |-> "open",
                                                                open0 |-> TRUE])]
                     /\ Returned("novel", "packet")
                     /\ UNCHANGED evs
  /\ UNCHANGED <<setVars, lifeVars, results, published, rev, pull, adj, running, peers, looking, sends, errs, sent>>

Next2 ==
  \/ \E n \in Node, s \in Seqno : "buffer" \in left.input /\ Publish2(n, s)
  \/ \E n \in Node : \E aged \in SUBSET Present(cache[n]) : PubOpen2(n, aged)
  \/ \E n \in Node : \E i \in 1..Len(pubs[n]) : \E aged \in SUBSET Present(cache[n]) : LookupDone2(n, i, aged)
  \/ \E n \in Node : \E q \in Listings(adj[n], left.any) : UpdatePeers2(n, q)
  \/ \E n \in Node, m \in InFlight, keep \in BOOLEAN :
       \E aged \in SUBSET Present(cache[n]) : OnPacket2(n, m, keep, aged)

\* The transport hands engine 1 a packet that some neighbour f built.
Inject(s, o, f) ==
  /\ left.inj > 0
  /\ f # 1
  /\ left' = [left EXCEPT !.inj = @ - 1]
  /\ net' = net (+) SetToBag({[to |-> 1, pkt |-> Pkt(s, o, f)]})
  /\ UNCHANGED <<setVars, obsVars, lifeVars, results, published, rev, pull, adj, running, cache, peers, looking, pubs,
                 emitted, got, sends, errs, sent, removed, markAt>>

Next == Next1 \/ Next2

NextNode ==
  \/ Next1
  \/ Next2
  \/ \E s \in Seqno, o \in Node, f \in Node : Inject(s, o, f)

Init == InitNet /\ SetIdle

\* The network of running engines.
Spec == Init /\ [][Next]_vars

InitOne == InitNode /\ SetIdle

\* One engine and its environment.
SpecNode == InitOne /\ [][NextNode]_vars

\* ---------------------------------------------------------- observations
RECURSIVE Sum(_, _)
Sum(f, S) == IF S = {} THEN 0
             ELSE LET x == CHOOSE y \in S : TRUE IN f[x] + Sum(f, S \ {x})

\* Number of 'packet' events engine n emitted for the message msg.
Emits(n, msg) == Sum([f \in Node |-> emitted[n][<<msg[1], msg[2], f>>]], Node)

\* Number of send calls of engine n towards p for packets with seqno s.
SendsTo(n, s, p) == Sum([o \in Node |-> sends[n][<<s, o, p>>]], Node)

\* Number of send calls in the whole network for the message msg.
TotalSends(msg) ==
  Sum([n \in Node |-> Sum([p \in Node |-> sends[n][<<msg[1], msg[2], p>>]], Node)], Node)

\* Number of (relay -> neighbour) pairs of the peer graph.
DirectedEdges == Sum([n \in Node |-> Cardinality(adj[n])], Node)

\* No token has left any cache (no timer ran, no age check failed, no value
\* was evicted for size).
NoRemoval == \A n \in Node, t \in Token : removed[n][t] = 0

\* No copy in flight and no _publish call suspended.
Quiet == net = EmptyBag /\ \A n \in Node : pubs[n] = <<>> /\ ~looking[n]

\* The steps the engines and the transport take on their own: hand a packet
\* over, settle a lookup, resume a suspended _publish.
Forward ==
  \/ \E n \in Node, m \in InFlight : OnPacket1(n, m, FALSE)
  \/ \E n \in Node : LookupDone1(n)
  \/ \E n \in Node : FanOut1(n)
  \/ \E n \in Node : \E aged \in SUBSET Present(cache[n]) : PubOpen2(n, aged)
  \/ \E n \in Node : \E i \in 1..Len(pubs[n]) : \E aged \in SUBSET Present(cache[n]) : LookupDone2(n, i, aged)
  \/ \E n \in Node, m \in InFlight :
       \E aged \in SUBSET Present(cache[n]) : OnPacket2(n, m, FALSE, aged)

\* The network with a transport that hands over every packet it accepted and
\* a scheduler that resumes every suspended call.
FairSpec == Spec /\ WF_vars(Forward)

\* ------------------------------------------------------------------ claims
\* C1: at-least-once delivery.  In a connected graph of open engines whose
\* transport hands over every sent packet, after the origin publishes a
\* message every other node eventually emits 'packet' for it.  (Stated for
\* revision 1; a rejected send is a packet the transport did not hand over.)
C1_AtLeastOnce ==
  \A msg \in Msg : \A n \in Node \ {msg[2]} :
    (rev = 1 /\ msg \in published)
      ~> (Emits(n, msg) >= 1 \/ \E k \in Node, p \in Node : errs[k][p] > 0)

\* C2: at-most-once local delivery.  A node emits 'packet' at most once per
\* message identity (seqno, origin); stated here for the runs in which no
\* token has left a cache, where the caches remember every delivery.
C2_AtMostOnce == NoRemoval => \A n \in Node, msg \in Msg : Emits(n, msg) <= 1

\* C3 as stated: a node calls send towards a given neighbour at most once
\* per message.
C3_SendOnce == \A n \in Node, e \in Edge : sends[n][e] <= 1

\* C3: a node calls send towards neighbour p for seqno s again only after the
\* token (s, p) has left its cache: the number of sends is at most one more
\* than the number of removals of the token.  A rejected send is not retried.
C3_SendOncePerToken ==
  \A n \in Node, s \in Seqno, p \in Node : SendsTo(n, s, p) <= 1 + removed[n][<<s, p>>]

\* C3 happens: engine 1 forwarded a received message, its send to p was
\* rejected, it then published and ran a second fan-out to the end, and p
\* was sent nothing more while its token stayed in the cache.
C3_Witness ==
  \E s \in Seqno, p \in Node \ {1} :
    /\ errs[1][p] = 1
    /\ SendsTo(1, s, p) = 1
    /\ removed[1][<<s, p>>] = 0
    /\ <<s, 1>> \in published
    /\ \E o \in Node \ {1} : Emits(1, <<s, o>>) >= 1
    /\ pubs[1] = <<>> /\ ~looking[1]
    /\ p \in Range(peers[1])

\* C4: no node calls send for a message towards the neighbour whose id is
\* the message's origin; stated here for the runs in which no token has left
\* a cache.
C4_NoSendToOrigin ==
  NoRemoval => \A n \in Node, msg \in Msg : sends[n][<<msg[1], msg[2], msg[2]>>] = 0

C6_Idempotent == NoRemoval => \A n \in Node, w \in Wire : emitted[n][w] <= 1

\* C7: deduplication is by (seqno, origin).  A message handed to a running
\* node that is not its origin has been delivered locally there, whatever
\* other messages with the same seqno the node handled.  (Revision 1.)
C7_Identity ==
  rev = 1 => \A n \in Node : \A msg \in got[n] : msg[2] # n => Emits(n, msg) >= 1

\* C8 as stated: for a single published message each directed edge carries
\* the message at most once and the send attempts number at most the
\* directed edges.
C8_EdgeOnce ==
  Cardinality(published) <= 1 =>
    \A msg \in Msg :
      /\ \A n \in Node, p \in Node : sends[n][<<msg[1], msg[2], p>>] <= 1
      /\ TotalSends(msg) <= DirectedEdges

\* C8: no-storm termination while the caches remember.  As long as no token
\* has left any cache, each directed edge carries a message at most once and
\* the send attempts for it number at most the directed edges; and if no
\* token ever leaves a cache the network becomes quiescent for good.
C8_NoStorm ==
  /\ [](NoRemoval =>
          \A msg \in Msg :
            /\ \A n \in Node, p \in Node : sends[n][<<msg[1], msg[2], p>>] <= 1
            /\ TotalSends(msg) <= DirectedEdges)
  /\ ([]NoRemoval => <>[]Quiet)

\* C8 happens: a published message reached every other node, some edges
\* carried redundant copies, no token was removed and the network is quiet.
C8_Witness ==
  \E msg \in published :
    /\ NoRemoval /\ Quiet
    /\ \A n \in Node \ {msg[2]} : Emits(n, msg) >= 1
    /\ TotalSends(msg) >= 3

\* ------------------------------------------------------------ lifecycle
\* if (this._running) return, in run.
AlreadyRunningNever(n) == FALSE

AlreadyRunning1(n) == running[n]

\* run(), first revision: subscribe unless running.
Run1(n) ==
  /\ rev = 1
  /\ left.run > 0
  /\ n \in left.who
  /\ left' = [left EXCEPT !.run = @ - 1]
  /\ IF AlreadyRunning1(n)
     THEN UNCHANGED <<running, subs>>
     ELSE /\ running' = [running EXCEPT ![n] = TRUE]
          /\ subs' = [subs EXCEPT ![n] = @ + 1]
  /\ UNCHANGED <<setVars, obsVars, opening, closed, disposed, results, published, rev, pull, adj, cache,
                 peers, looking, pubs, net, emitted, got, sends, errs, sent, removed, markAt>>

\* stop(), first revision: unless stopped, call the disposer and clear the
\* set (a clear that empties it at once, as revision A of the set does).
Stop1(n) ==
  /\ rev = 1
  /\ left.stop > 0
  /\ n \in left.who
  /\ left' = [left EXCEPT !.stop = @ - 1]
  /\ IF ~running[n]
     THEN UNCHANGED <<running, subs, disposed, cache, removed>>
     ELSE /\ running' = [running EXCEPT ![n] = FALSE]
          /\ subs' = [subs EXCEPT ![n] = @ - 1]
          /\ disposed' = [disposed EXCEPT ![n] = @ + 1]
          /\ cache' = [cache EXCEPT ![n] = SetClear(@)]
          /\ removed' = [removed EXCEPT ![n] = Bump(@, cache[n], SetClear(cache[n]))]
  /\ UNCHANGED <<setVars, obsVars, opening, closed, results, published, rev, pull, adj,
                 peers, looking, pubs, net, emitted, got, sends, errs, sent, markAt>>

\* run(), nanoresource revision: this.open(); a rejection is emitted as
\* 'error'.
Run2(n) ==
  /\ rev = 2
  /\ left.run > 0
  /\ n \in left.who
  /\ left' = [left EXCEPT !.run = @ - 1]
  /\ Open2(n)
  /\ UNCHANGED <<setVars, obsVars, closed, disposed, results, published, rev, pull, adj, running, cache,
                 peers, looking, pubs, net, emitted, got, sends, errs, sent, removed, markAt>>

\* The open() that called _open completes: the resource is opened.
OpenDone2(n) ==
  /\ rev = 2
  /\ opening[n]
  /\ opening' = [opening EXCEPT ![n] = FALSE]
  /\ running' = [running EXCEPT ![n] = TRUE]
  /\ UNCHANGED <<setVars, obsVars, closed, subs, disposed, results, published, rev, pull, adj, cache,
                 peers, looking, pubs, net, left, emitted, got, sends, errs, sent, removed, markAt>>

\* this._seenSeqs.clear() of the lru cache.
LruClear(c) == [c EXCEPT !.list = <<>>]

\* stop(), nanoresource revision: this.close().  Nothing once closed; an
\* opened resource runs _close (disposer, clear); a resource never opened is
\* closed without _close.  A close() called while opening takes effect when
\* the open completes, which is when this step is taken.
Stop2(n) ==
  /\ rev = 2
  /\ left.stop > 0
  /\ n \in left.who
  /\ ~opening[n]
  /\ left' = [left EXCEPT !.stop = @ - 1]
  /\ closed' = [closed EXCEPT ![n] = TRUE]
  /\ IF ~running[n]
     THEN UNCHANGED <<running, subs, disposed, cache, removed>>
     ELSE /\ running' = [running EXCEPT ![n] = FALSE]
          /\ subs' = [subs EXCEPT ![n] = @ - 1]
          /\ disposed' = [disposed EXCEPT ![n] = @ + 1]
          /\ cache' = [cache EXCEPT ![n] = LruClear(@)]
          /\ removed' = [removed EXCEPT ![n] = Bump(@, cache[n], LruClear(cache[n]))]
  /\ UNCHANGED <<setVars, obsVars, opening, results, published, rev, pull, adj,
                 peers, looking, pubs, net, emitted, got, sends, errs, sent, markAt>>

\* What the application of engine 1 may do with its lifecycle: run and stop
\* calls around its publish calls, while a neighbour hands it a packet.
LifeScenarios ==
  {[pub |-> MaxPublish, exp |-> 0, dup |-> 0, fail |-> 0, inj |-> 1,
    run |-> MaxRun, stop |-> MaxStop, lfail |-> 0, bad |-> 0, input |-> {"buffer"}, who |-> {1}, any |-> FALSE],
   [pub |-> 1, exp |-> MaxExpire, dup |-> 0, fail |-> MaxFail, inj |-> 1,
    run |-> 1, stop |-> 1, lfail |-> 0, bad |-> 0, input |-> {"buffer"}, who |-> {1}, any |-> FALSE]}

\* The engines as the constructor leaves them: run() has not been called.
InitLife ==
  /\ rev \in {1, 2}
  /\ pull \in BOOLEAN
  /\ rev = 1 => pull
  /\ adj \in Graphs
  /\ maxSize = DefaultMaxSize(rev)
  /\ running = [n \in Node |-> FALSE]
  /\ left \in LifeScenarios
  /\ NetStart

NextLife ==
  \/ Next1
  \/ Next2
  \/ \E s \in Seqno, o \in Node, f \in Node : Inject(s, o, f)
  \/ \E n \in Node : Run1(n)
  \/ \E n \in Node : Stop1(n)
  \/ \E n \in Node : Run2(n)
  \/ \E n \in Node : OpenDone2(n)
  \/ \E n \in Node : Stop2(n)

InitApp == InitLife /\ SetIdle

\* One engine driven through its lifecycle by its application.
SpecLife == InitApp /\ [][NextLife]_vars

\* --------------------------------------------------------------- faults
\* assert(Buffer.isBuffer(data)); assert(Buffer.isBuffer(seqno)) in publish.
AcceptsAnything(d, q) == TRUE

Accepts(d, q) == d = "buffer" /\ q = "buffer"

\* publish(data, { seqno }) with data of kind d and seqno of kind q: the
\* asserts come first, a failed assert rejects the promise.
PublishInput(n, s, d, q) ==
  /\ d \in left.input /\ q \in left.input
  /\ IF Accepts(d, q)
     THEN Publish1(n, s) \/ Publish2(n, s)
     ELSE /\ left.pub > 0
          /\ n \in left.who
          /\ left' = [left EXCEPT !.pub = @ - 1]
          /\ results' = results \cup {Result(n, running[n], "assertion", NoPkt)}
          /\ UNCHANGED <<setVars, obsVars, lifeVars, published, rev, pull, adj, running,
                         cache, peers, looking, pubs, net, emitted, got, sends, errs, sent,
                         removed, markAt>>

\* The transport hands over bytes that do not decode: codec.decode throws
\* inside the try of _onPacket, the catch emits 'subscribe-error' and (first
\* revision) returns false.
Garbage(n) ==
  /\ left.bad > 0
  /\ left' = [left EXCEPT !.bad = @ - 1]
  /\ IF ~Listening(n)
     THEN Returned("closed", "undefined") /\ UNCHANGED evs
     ELSE /\ Emit(n, "subscribe-error")
          /\ Returned("garbage", IF rev = 1 THEN "false" ELSE "undefined")
  /\ UNCHANGED <<setVars, lifeVars, results, published, rev, pull, adj, running, cache,
                 peers, looking, pubs, net, emitted, got, sends, errs, sent, removed, markAt>>

\* The number of _publish calls waiting on the lookup promise.
Waiting(q) == Cardinality({i \in 1..Len(q) : q[i].stage = "lookup"})

\* A lookup failure that leaves the waiting _publish calls waiting.
LookupFailStuck1(n) ==
  /\ rev = 1
  /\ looking[n]
  /\ left.lfail > 0
  /\ left' = [left EXCEPT !.lfail = @ - 1]
  /\ evs' = [evs EXCEPT ![n]["lookup-error"] = @ + Waiting(pubs[n])]
  /\ looking' = [looking EXCEPT ![n] = FALSE]
  /\ UNCHANGED <<setVars, handled, lifeVars, results, published, rev, pull, adj, running,
                 cache, peers, net, emitted, got, sends, errs, sent, removed, markAt, pubs>>

\* The lookup promise rejects, first revision: each _lookup() call waiting
\* on it emits 'lookup-error' and forgets the promise; _peers is not
\* assigned and each _publish goes on.
LookupFail1(n) ==
  /\ rev = 1
  /\ looking[n]
  /\ left.lfail > 0
  /\ left' = [left EXCEPT !.lfail = @ - 1]
  /\ evs' = [evs EXCEPT ![n]["lookup-error"] = @ + Waiting(pubs[n])]
  /\ looking' = [looking EXCEPT ![n] = FALSE]
  /\ pubs' = [pubs EXCEPT ![n] = [i \in 1..Len(@) |-> [@[i] EXCEPT !.stage = "ready"]]]
  /\ UNCHANGED <<setVars, handled, lifeVars, results, published, rev, pull, adj, running,
                 cache, peers, net, emitted, got, sends, errs, sent, removed, markAt>>

\* await this._lookup() rejects, nanoresource revision: the catch of
\* _publish emits 'send-error' and throws again, the call fails.
LookupFail2(n, i) ==
  /\ rev = 2
  /\ i \in 1..Len(pubs[n])
  /\ pubs[n][i].stage = "lookup"
  /\ left.lfail > 0
  /\ left' = [left EXCEPT !.lfail = @ - 1]
  /\ Emit(n, "send-error")
  /\ Settle(n, pubs[n][i], "rejected", NoPkt)
  /\ pubs' = [pubs EXCEPT ![n] = SpliceOut(@, i)]
  /\ UNCHANGED <<setVars, handled, lifeVars, published, rev, pull, adj, running,
                 cache, peers, looking, net, emitted, got, sends, errs, sent, removed, markAt>>

\* One running engine whose middleware and application may misbehave:
\* failing lookups, bytes that do not decode, arguments that are no buffers.
FaultScenarios ==
  {[pub |-> MaxPublish, exp |-> 0, dup |-> 0, fail |-> 0, inj |-> MaxInject,
    run |-> 0, stop |-> 0, lfail |-> MaxLookupFail, bad |-> MaxBad, input |-> Input,
    who |-> {1}, any |-> FALSE],
   [pub |-> 1, exp |-> MaxExpire, dup |-> 0, fail |-> MaxFail, inj |-> 1,
    run |-> 0, stop |-> 0, lfail |-> MaxLookupFail, bad |-> MaxBad, input |-> {"buffer"},
    who |-> {1}, any |-> FALSE],
   [pub |-> MaxPublish, exp |-> 0, dup |-> 0, fail |-> 0, inj |-> 1,
    run |-> 0, stop |-> 0, lfail |-> 0, bad |-> 0, input |-> {"string"},
    who |-> {1}, any |-> FALSE]}

InitFault ==
  /\ rev \in {1, 2}
  /\ pull \in BOOLEAN
  /\ rev = 1 => pull
  /\ adj \in Graphs
  /\ maxSize = DefaultMaxSize(rev)
  /\ running = [n \in Node |-> n = 1]
  /\ left \in FaultScenarios
  /\ NetStart

NextFault ==
  \/ Next1
  \/ Next2
  \/ \E s \in Seqno, o \in Node, f \in Node : Inject(s, o, f)
  \/ \E n \in Node, s \in Seqno, d \in Input, q \in Input : PublishInput(n, s, d, q)
  \/ \E n \in Node : Garbage(n)
  \/ \E n \in Node : LookupFail1(n)
  \/ \E n \in Node : \E i \in 1..Len(pubs[n]) : LookupFail2(n, i)

InitBad == InitFault /\ SetIdle

\* One engine with a faulty environment.
SpecFault == InitBad /\ [][NextFault]_vars

\* ------------------------------------------------------- a long maxAge
\* maxAge is long next to the time a message takes to cross the network (the
\* test 'complete' waits maxAge after the last delivery): the timers of the
\* first revision's set come due once the traffic has ended, and each runs
\* _onTimeout.  The lru cache of the nanoresource revision has no timer; it
\* drops an aged entry only when get or peek comes across it.
Age1(n, tm) ==
  /\ rev = 1
  /\ Quiet
  /\ tm \in cache[n].timer
  /\ cache' = [cache EXCEPT ![n] = SetOnTimeoutA(@, tm)]
  /\ removed' = [removed EXCEPT ![n] = Bump(@, cache[n], SetOnTimeoutA(cache[n], tm))]
  /\ UNCHANGED <<setVars, obsVars, lifeVars, results, published, rev, pull, adj, running, peers,
                 looking, pubs, net, left, emitted, got, sends, errs, sent, markAt>>

\* One message published by engine 1 in a network of running engines.
DrainScenarios ==
  {[pub |-> 1, exp |-> e, dup |-> 0, fail |-> 0, inj |-> 0, run |-> 0, stop |-> 0,
    lfail |-> 0, bad |-> 0, input |-> {"buffer"}, who |-> {1}, any |-> FALSE] : e \in {0, 1}}

InitDrain ==
  /\ rev \in {1, 2}
  /\ pull \in BOOLEAN
  /\ rev = 1 => pull
  /\ adj \in Graphs
  /\ maxSize = DefaultMaxSize(rev)
  /\ running = [n \in Node |-> TRUE]
  /\ left \in DrainScenarios
  /\ NetStart

Aging == \E n \in Node : \E tm \in cache[n].timer : Age1(n, tm)

NextDrain ==
  \/ Next1
  \/ Next2
  \/ Aging

InitLong == InitDrain /\ SetIdle

SpecDrain == InitLong /\ [][NextDrain]_vars

\* The same with a transport that hands over every packet, a scheduler that
\* resumes every suspended call and timers that run when they are due.
FairDrain == SpecDrain /\ WF_vars(Forward) /\ WF_vars(Aging)

\* ------------------------------------------------ overlapping publishes
\* Engines whose application publishes again while a lookup (pull mode) is
\* pending; maxAge may pass between the two calls.
PullScenarios ==
  {[pub |-> MaxPublish, exp |-> 1, dup |-> 0, fail |-> 0, inj |-> 0,
    run |-> 0, stop |-> 0, lfail |-> 0, bad |-> 0, input |-> {"buffer"},
    who |-> {1}, any |-> FALSE]}

InitPull ==
  /\ rev \in {1, 2}
  /\ pull \in BOOLEAN
  /\ rev = 1 => pull
  /\ adj \in Graphs
  /\ maxSize = DefaultMaxSize(rev)
  /\ running = [n \in Node |-> TRUE]
  /\ left \in PullScenarios
  /\ NetStart

InitOverlap == InitPull /\ SetIdle

SpecPull == InitOverlap /\ [][Next]_vars

\* -------------------------------------- first revision, failing forwards
\* One first-revision engine whose lookups and sends may fail while the
\* transport hands it packets.
LocalScenarios ==
  {[pub |-> 1, exp |-> 1, dup |-> 0, fail |-> MaxFail, inj |-> i,
    run |-> 0, stop |-> 0, lfail |-> MaxLookupFail, bad |-> 0, input |-> {"buffer"},
    who |-> {1}, any |-> FALSE] : i \in {1, MaxInject}}

InitLocal ==
  /\ rev = 1
  /\ pull = TRUE
  /\ adj \in Graphs
  /\ maxSize = DefaultMaxSize(rev)
  /\ running = [n \in Node |-> n = 1]
  /\ left \in LocalScenarios
  /\ NetStart

NextLocal ==
  \/ Next1
  \/ \E s \in Seqno, o \in Node, f \in Node : Inject(s, o, f)
  \/ \E n \in Node : LookupFail1(n)

InitFirst == InitLocal /\ SetIdle

SpecLocal == InitFirst /\ [][NextLocal]_vars

\* The transport hands over what it accepted, a pending lookup settles (or
\* fails) and a suspended _publish is resumed.
FairLocal == SpecLocal /\ WF_vars(Forward)

\* ---------------------------------------------------- the set on its own
InitAlone == InitSet /\ NetIdle

SpecSet == InitAlone /\ [][NextSet]_vars

\* ------------------------------------------------------ claims on the set

\* C9: for every configured maxSize >= 1 the set never holds more than
\* maxSize values, whatever adds, hits, deletes, clears and timer expiries
\* have happened.
C9_SizeBound == maxSize >= 1 /\ SetSize(set) <= maxSize

\* C9 witness: an add of an absent value to a set that held maxSize values
\* has returned and the set holds maxSize values.
C9_Witness ==
  /\ last.op = "add" /\ ~last.had /\ last.size0 = maxSize
  /\ InMap(set, last.value) /\ SetSize(set) = maxSize

\* C10: a value that is present has been touched (add, re-add or has hit)
\* no longer than maxAge ago: once maxAge has passed without a touch the
\* value is out of the map, so has answers false and size does not count it.
C10_AgeEviction == \A v \in SetValue : InMap(set, v) => idle[v] <= maxAge

\* C10 witness: the timer of a value left untouched for maxAge has run and
\* the value is gone while another value, touched later, is still there.
C10_Witness ==
  /\ last.op = "timeout" /\ last.had /\ ~InMap(set, last.value)
  /\ SetSize(set) = last.size0 - 1 /\ SetSize(set) > 0

\* C11: when add(x) of an absent value finds the set at maxSize, the values
\* present afterwards are the ones present before, minus exactly one, the
\* value whose most recent touch (add, re-add or has hit) is the oldest,
\* plus x; so a value touched by has or re-add is not the victim while a
\* value touched longer ago is present.
C11_LruVictim ==
  [][\A v \in SetValue :
       (last'.op = "add" /\ last'.value = v /\ ~InMap(set, v) /\ SetSize(set) = maxSize)
         => /\ recent # <<>>
            /\ Range(set'.keys) = (Range(set.keys) \ {Head(recent)}) \cup {v}
            /\ SetSize(set') = maxSize]_vars

\* C11 witness: an add of an absent value to a full set has evicted the
\* least recently touched value, and the value inserted first, touched
\* since, is still present.
C11_Witness ==
  /\ last.op = "add" /\ ~last.had /\ last.size0 = maxSize
  /\ last.first # last.lru
  /\ InMap(set, last.first) /\ ~InMap(set, last.lru)
  /\ InMap(set, last.value) /\ SetSize(set) = maxSize

\* C12: add(x) of a value that is already present leaves the set of present
\* values as it was, also when the set is at maxSize.
C12_AddIdempotent ==
  [][\A v \in SetValue :
       (last'.op = "add" /\ last'.value = v /\ InMap(set, v))
         => Range(set'.keys) = Range(set.keys)]_vars

\* C13: delete(x) returns true and removes x when x is present, and returns
\* false, changing nothing and raising no error, when x is absent.
C13_DeleteResult ==
  last.op = "delete" =>
    IF last.had
    THEN last.ret = "true" /\ ~InMap(set, last.value) /\ SetSize(set) = last.size0 - 1
    ELSE last.ret = "false" /\ SetSize(set) = last.size0

\* C14: when clear() has returned the set is empty and no expiry timer is
\* pending, and the clear removes nothing that is added afterwards.
C14_ClearNow ==
  /\ last.op = "clear" => SetSize(set) = 0 /\ set.timer = {}
  /\ last.op = "clearTick" => SetSize(set) = last.size0

\* ------------------------------------------------ claims on the lifecycle
\* The engine is in the state the specification calls closed: neither open
\* nor opening (never run, stopped, or closed for good).
Shut(n) == ~running[n] /\ ~opening[n]

\* C15: when an engine leaves open (stop / close) the transport disposer is
\* called and the Seen-Cache is empty, with no timer pending, and it stays
\* so for as long as the engine is closed, whatever publish, forward or
\* lookup was in flight.
C15_ClosedStaysEmpty ==
  /\ [](\A n \in Node : Shut(n) => Present(cache[n]) = {} /\ cache[n].timer = {})
  /\ [][\A n \in Node : (running[n] /\ ~running'[n]) => disposed'[n] = disposed[n] + 1]_vars

\* C16: run / open on an engine that is opening or open subscribes to
\* nothing, stop / close on a closed engine calls no disposer and leaves
\* the cache alone; an engine never holds more than one subscription, and
\* holds exactly one when open.
C16_LifecycleIdempotent ==
  /\ [](\A n \in Node : subs[n] <= 1 /\ (running[n] => subs[n] = 1))
  /\ [][left'.run < left.run =>
          \A n \in Node : (running[n] \/ opening[n]) => subs'[n] = subs[n]]_vars
  /\ [][left'.stop < left.stop =>
          \A n \in Node : Shut(n) => disposed'[n] = disposed[n] /\ cache'[n] = cache[n]]_vars

\* C16 witness: the application has called run twice and stop twice and
\* published nothing; the disposer ran once and no subscription is left, so
\* one of the calls found the engine already in the state it asked for.
C16_Witness ==
  /\ left.run = 0 /\ left.stop = 0 /\ left.pub = MaxPublish /\ MaxRun >= 2 /\ MaxStop >= 2
  /\ disposed[1] = 1 /\ subs[1] = 0 /\ Shut(1)

\* What a call must leave alone at engine n to have no effect on it: the
\* cache, the peer snapshot, the lifecycle, the subscriptions, the pending
\* lookup, the suspended _publish calls and the sends.
Untouched(n) ==
  /\ cache'[n] = cache[n] /\ peers'[n] = peers[n]
  /\ running'[n] = running[n] /\ opening'[n] = opening[n] /\ closed'[n] = closed[n]
  /\ subs'[n] = subs[n] /\ disposed'[n] = disposed[n]
  /\ looking'[n] = looking[n] /\ pubs'[n] = pubs[n] /\ sends'[n] = sends[n]

\* C17 as stated: a publish call on an engine that is not open adds no token,
\* changes neither the peer snapshot nor the lifecycle state and calls
\* neither lookup nor send.
C17_NotOpenNoEffect ==
  [][left'.pub < left.pub => \A n \in Node : ~running[n] => Untouched(n)]_vars

\* The engine refuses to publish: a first-revision engine that is not
\* running, a nanoresource engine that has been closed.
Refusing(n) == IF rev = 1 THEN ~running[n] ELSE closed[n]

\* C17: a publish call on a stopped first-revision engine or on a closed
\* nanoresource engine adds no token, changes neither the peer snapshot nor
\* the lifecycle state and calls neither lookup nor send (a nanoresource
\* engine that was never opened is opened by the call).
C17_RefusedNoEffect ==
  [][left'.pub < left.pub => \A n \in Node : Refusing(n) => Untouched(n)]_vars

\* C17 witness: a publish call made on an engine that had been open and
\* was stopped has settled without a packet, and the cache is empty.
C17_Witness ==
  \E r \in results :
    /\ ~r.open0 /\ r.kind # "packet" /\ disposed[r.n] >= 1
    /\ Shut(r.n) /\ Present(cache[r.n]) = {} /\ pubs[r.n] = <<>>

\* C18: a publish call made on an engine that is not open settles with a
\* failure (the promise rejects), an outcome that no publish call made on an
\* open engine settles with.
C18_ExplicitFailure ==
  /\ \A r \in results : ~r.open0 => r.kind = "rejected"
  /\ \A r, q \in results : (~r.open0 /\ q.open0) => r.kind # q.kind

\* --------------------------------------------- claims on publish and send
\* C19: a publish call made on an open engine resolves to the finalized
\* packet, with the seqno it was given and origin and from equal to the
\* engine's id; and every 'packet' event carries the seqno and origin of a
\* message that was published.
C19_ResolvesToPacket ==
  /\ \A r \in results :
       r.open0 => /\ r.kind = "packet"
                  /\ <<r.pkt.seqno, r.n>> \in published
                  /\ r.pkt.origin = r.n /\ r.pkt.from = r.n
  /\ \A n \in Node, w \in Wire : emitted[n][w] > 0 => <<w[1], w[2]>> \in published

\* Neighbour q is eligible for the fan-out by n of message (s, o): its token
\* is not in the cache, and (nanoresource revision) it is not the origin.
Eligible(n, s, o, q) == msgId(s, q) \notin Present(cache[n]) /\ (rev = 2 => q # o)

\* C20: when a send fails during a fan-out, one 'send-error' is emitted for
\* it, send is called all the same for every other eligible neighbour, whose
\* packet goes out unless its own send fails, and the operation completes:
\* the _publish call returns and no publish rejects.
C20_SendFailureIsolated ==
  [][\A n \in Node, p \in Node :
       errs'[n][p] > errs[n][p] =>
         /\ errs'[n][p] = errs[n][p] + 1
         /\ \E s \in Seqno, o \in Node :
              /\ sends'[n][<<s, o, p>>] = sends[n][<<s, o, p>>] + 1
              /\ \A q \in Range(peers'[n]) :
                   Eligible(n, s, o, q) =>
                     /\ sends'[n][<<s, o, q>>] = sends[n][<<s, o, q>>] + 1
                     /\ errs'[n][q] = errs[n][q] =>
                          CopiesIn([to |-> q, pkt |-> Pkt(s, o, n)], net')
                            = CopiesIn([to |-> q, pkt |-> Pkt(s, o, n)], net) + 1
         /\ Len(pubs'[n]) = Len(pubs[n]) - 1
         /\ \A r \in results' \ results : r.kind # "rejected"]_vars

\* C20 witness: a send of the publisher failed, another neighbour of the
\* same fan-out was sent the message and emitted it, and the publish call
\* has settled without rejecting.
C20_Witness ==
  \E s \in Seqno, n \in Node, p \in Node, q \in Node :
    /\ p # q /\ errs[n][p] >= 1
    /\ sends[n][<<s, n, p>>] >= 1 /\ sends[n][<<s, n, q>>] >= 1
    /\ emitted[q][<<s, n, n>>] >= 1
    /\ \E r \in results : r.n = n /\ r.kind # "rejected"

\* ------------------------------------------------------ claims on faults
\* C21: when a lookup fails, 'lookup-error' is emitted, the peer snapshot
\* and the lifecycle state stay as they were, the _publish calls that
\* waited for the lookup go on to their fan-out and none fails (no
\* 'send-error' for the call, no rejected publish), and no lookup is left
\* pending, so that the next fan-out starts a new one.
C21_LookupFailureNonFatal ==
  [][left'.lfail < left.lfail =>
       \A n \in Node :
         pubs'[n] # pubs[n] =>
           /\ evs'[n]["lookup-error"] > evs[n]["lookup-error"]
           /\ evs'[n]["send-error"] = evs[n]["send-error"]
           /\ peers'[n] = peers[n] /\ running'[n] = running[n]
           /\ Len(pubs'[n]) = Len(pubs[n])
           /\ \A i \in 1..Len(pubs[n]) : pubs'[n][i].stage # "lookup"
           /\ ~looking'[n]
           /\ \A r \in results' \ results : r.kind # "rejected"]_vars

\* C22: once a published message has reached every other node, and maxAge
\* has passed without further traffic, the Seen-Cache of every node, the
\* origin included, holds nothing.
C22_CacheDrains ==
  \A msg \in Msg :
    (msg \in published /\ \A n \in Node \ {msg[2]} : Emits(n, msg) >= 1)
      ~> (Quiet /\ \A n \in Node : Present(cache[n]) = {})

\* A publish call whose data or seqno is not a byte buffer was made in this
\* step.
BadCall ==
  /\ left'.pub < left.pub
  /\ \/ "buffer" \notin left.input
     \/ \E r \in results' \ results : r.kind = "assertion"

\* C23: a publish call whose data or seqno is not a byte buffer is rejected
\* before anything changes: no token is added, the peer snapshot and the
\* lifecycle state stay, no lookup and no send is made, nothing is
\* published or put in flight.
C23_BadInputRejected ==
  /\ [][BadCall => /\ \A n \in Node : Untouched(n)
                   /\ published' = published /\ net' = net
                   /\ \E r \in results' : r.kind = "assertion"]_vars
  /\ []("buffer" \notin left.input =>
          published = {} /\ \A r \in results : r.kind = "assertion")

C23_Witness ==
  \E r \in results :
    /\ r.kind = "assertion" /\ r.open0
    /\ running[r.n] /\ Present(cache[r.n]) # {}

\* C24: on a running engine the callback given to subscribe returns true
\* for bytes that decode to a packet, novel or duplicate, and false for
\* bytes that do not decode.
C24_OnPacketReturn ==
  \A h \in handled :
    /\ h.kind \notin {"closed", "garbage"} => h.ret = "true"
    /\ h.kind = "garbage" => h.ret = "false"

\* C25: the check of the self token and its insertion are one step.  When a
\* copy of a message has been accepted and its forward has not yet run, and
\* no token has left a cache, a copy from another neighbour raises no second
\* 'packet' event and starts no second fan-out.
C25_AtomicCheckAndSet ==
  [][NoRemoval' =>
       \A n \in Node, w \in Wire :
         emitted'[n][w] > emitted[n][w] =>
           \A i \in 1..Len(pubs[n]) :
             ~(pubs[n][i].pkt.seqno = w[1] /\ pubs[n][i].pkt.origin = w[2])]_vars

\* C26: a packet whose origin is the engine's own id raises no 'packet'
\* event and is not forwarded, at any time, also after the self token has
\* left the cache.
C26_OwnOriginDropped ==
  \A n \in Node :
    /\ \A w \in Wire : w[2] = n => emitted[n][w] = 0
    /\ \A i \in 1..Len(pubs[n]) : pubs[n][i].pkt.origin = n => pubs[n][i].pkt.from = 0

\* C29: a decodable inbound packet raises no 'subscribe-error': a novel
\* packet whose from matches no peer of the snapshot is delivered and
\* forwarded like any other, and the callback does not come back empty.
C29_UnknownSenderAdvisory ==
  /\ [][\A n \in Node :
          evs'[n]["subscribe-error"] > evs[n]["subscribe-error"] => left'.bad < left.bad]_vars
  /\ [](\A h \in handled : h.kind = "unknown" => h.ret # "undefined")

\* The transport hands engine n a packet in this step.
Delivered(n) ==
  \E m \in InFlight : m.to = n /\ CopiesIn(m, net') < CopiesIn(m, net)

\* C27: what the transport hands to an engine that is not open is ignored:
\* the callback returns at once, no token is added, no 'packet' and no
\* error event is raised, nothing is looked up, forwarded or sent.
C27_ClosedIgnores ==
  [][\A n \in Node :
       (~running[n] /\ Delivered(n)) =>
         /\ Untouched(n)
         /\ emitted'[n] = emitted[n] /\ got'[n] = got[n]
         /\ evs'[n] = evs[n] /\ errs'[n] = errs[n]
         /\ results' = results
         /\ \A m \in BagToSet(net') : CopiesIn(m, net') <= CopiesIn(m, net)
         /\ handled' \subseteq handled \cup {[kind |-> "closed", ret |-> "undefined"]}]_vars

C27_Witness ==
  \E n \in Node :
    /\ ~running[n]
    /\ [kind |-> "closed", ret |-> "undefined"] \in handled
    /\ \E h \in handled : h.kind = "novel"
    /\ Present(cache[n]) = {}
    /\ \A m \in InFlight : m.to # n

\* The number of 'subscribe-error' events raised so far, all engines.
SubscribeErrors(e) == Sum([n \in Node |-> e[n]["subscribe-error"]], Node)

\* C28: bytes that do not decode, handed to an open engine, raise exactly
\* one 'subscribe-error' there and nothing else: no token is added, no
\* 'packet' is emitted, nothing is looked up or sent, and the engine stays
\* open with its cache as it was for the packets that follow.
C28_DecodeFailureIsolated ==
  [][left'.bad < left.bad =>
       /\ \A n \in Node :
            /\ Untouched(n)
            /\ emitted'[n] = emitted[n] /\ got'[n] = got[n] /\ errs'[n] = errs[n]
            /\ \A k \in Event \ {"subscribe-error"} : evs'[n][k] = evs[n][k]
       /\ net' = net /\ results' = results /\ published' = published
       /\ \/ /\ \E n \in Node :
                  /\ running[n]
                  /\ evs'[n]["subscribe-error"] = evs[n]["subscribe-error"] + 1
             /\ SubscribeErrors(evs') = SubscribeErrors(evs) + 1
             /\ \E h \in handled' : h.kind = "garbage"
          \/ /\ evs' = evs
             /\ \E n \in Node : ~running[n]
             /\ handled' = handled \cup {[kind |-> "closed", ret |-> "undefined"]}]_vars

C28_Witness ==
  /\ left.bad < MaxBad
  /\ running[1] /\ evs[1]["subscribe-error"] = 1
  /\ \E h \in handled : h.kind = "garbage"
  /\ \E h \in handled : h.kind = "novel"
  /\ \E w \in Wire : emitted[1][w] >= 1

\* C30: every packet handed to send names the sending engine in from, and
\* carries the seqno and the origin of a message that was published; each
\* send call that does not fail puts exactly that packet on the wire.
C30_HopStamping ==
  [][/\ \A m \in BagToSet(net') :
          CopiesIn(m, net') > CopiesIn(m, net) =>
            /\ <<m.pkt.seqno, m.pkt.origin>> \in published'
            /\ m.pkt.from \in Node
            /\ sends'[m.pkt.from][<<m.pkt.seqno, m.pkt.origin, m.to>>]
                 > sends[m.pkt.from][<<m.pkt.seqno, m.pkt.origin, m.to>>]
     /\ \A n \in Node, e \in Edge :
          (sends'[n][e] > sends[n][e] /\ errs'[n][e[3]] = errs[n][e[3]]) =>
            CopiesIn([to |-> e[3], pkt |-> Pkt(e[1], e[2], n)], net')
              > CopiesIn([to |-> e[3], pkt |-> Pkt(e[1], e[2], n)], net)]_vars

C30_Witness ==
  \E n \in Node, e \in Edge :
    /\ e[2] # n /\ <<e[1], e[2]>> \in published
    /\ Emits(n, <<e[1], e[2]>>) >= 1
    /\ sends[n][e] >= 1
    /\ BagIn([to |-> e[3], pkt |-> Pkt(e[1], e[2], n)], net)

\* The _publish calls of engine n for the message (s, o) that have not yet
\* run their fan-out.
Pending(q, s, o) == {i \in 1..Len(q) : q[i].pkt.seqno = s /\ q[i].pkt.origin = o}

LookupsInFlight(n) ==
  IF rev = 1 THEN (IF looking[n] THEN 1 ELSE 0) ELSE Waiting(pubs[n])

\* C32: in pull mode at most one middleware lookup is in flight per engine;
\* every _publish that waits for a lookup waits for that one, and when it
\* settles all of them go on with the peers it returned.
C32_LookupCoalesced ==
  /\ [](\A n \in Node : LookupsInFlight(n) <= 1)
  /\ [][\A n \in Node :
          (peers'[n] # peers[n] \/ LookupsInFlight(n)' < LookupsInFlight(n)) =>
            \A i \in 1..Len(pubs'[n]) : pubs'[n][i].stage # "lookup"]_vars

\* -------------------------------------------- more claims on the set
\* C33: a touch postpones expiry.  The timer of a present value has maxAge
\* less the time since its most recent touch (add, re-add or has hit) left
\* to run, and a timer removes a value only when maxAge has passed since
\* that touch.
C33_TouchPostpones ==
  /\ [](\A v \in SetValue :
          InMap(set, v) =>
            \E tm \in set.timer : tm.value = v /\ tm.left = maxAge - idle[v])
  /\ [][\A v \in SetValue :
          (last'.op = "timeout" /\ last'.value = v /\ InMap(set, v) /\ ~InMap(set', v))
            => idle[v] = maxAge]_vars

\* C33 witness: a timer has removed a value while the value inserted before
\* it, touched since, is still present.
C33_Witness ==
  /\ last.op = "timeout" /\ last.had
  /\ last.first # last.value
  /\ InMap(set, last.first) /\ ~InMap(set, last.value)

\* The pending timers of value v.
TimersOf(c, v) == {tm \in c.timer : tm.value = v}

\* C34: no dangling timers.  Every present value has exactly one pending
\* timer and no absent value has one, whatever deletes, evictions, clears
\* and touches have happened; so a timer that runs always finds its value
\* present, and no expiry ever meets a missing value.
C34_NoDanglingTimers ==
  /\ [](\A v \in SetValue :
          Cardinality(TimersOf(set, v)) = IF InMap(set, v) THEN 1 ELSE 0)
  /\ [][last'.op = "timeout" =>
          /\ InMap(set, last'.value)
          /\ Range(set'.keys) = Range(set.keys) \ {last'.value}]_vars

\* C34 witness: a delete has removed a value whose timer was pending; the
\* timer is gone with it and another value keeps its own, partly run.
C34_Witness ==
  /\ last.op = "delete" /\ last.had
  /\ ~InMap(set, last.value) /\ TimersOf(set, last.value) = {}
  /\ \E tm \in set.timer : InMap(set, tm.value) /\ tm.left < maxAge

\* values(): this._map.keys(), the keys of the Map in insertion order.
Values(c) == c.keys

\* C35 as stated: values() lists the present values in the order used for
\* eviction, least recently touched first, also after a has hit or a re-add.
C35_ValuesLruOrder == setRev = "A" => Values(set) = recent

\* C35: values() lists exactly the present values, each once, in the order
\* of their insertion: a call leaves the order of the values that stay as
\* it was and puts a value that was absent at the end, and a has hit or a
\* re-add of a present value, which moves it in the eviction order, moves
\* nothing in values().
C35_ValuesInsertionOrder ==
  /\ [](setRev = "A" =>
          /\ Range(Values(set)) = Range(recent)
          /\ Len(Values(set)) = Cardinality(Range(Values(set))))
  /\ [][setRev = "A" =>
          /\ \/ Values(set)' = Keep(Values(set), Range(Values(set)'))
             \/ \E v \in SetValue \ Range(Values(set)) :
                  Values(set)' = Append(Keep(Values(set), Range(Values(set)') \ {v}), v)
          /\ \A v \in SetValue :
               (last'.op \in {"has", "add"} /\ last'.value = v /\ InMap(set, v))
                 => Values(set)' = Values(set)]_vars

\* C35 witness: a has hit has made the value inserted first the most
\* recently touched one while values() still lists it first.
C35_Witness ==
  /\ setRev = "A"
  /\ last.op = "has" /\ last.ret = "true"
  /\ SetSize(set) >= 2
  /\ Head(Values(set)) = last.value
  /\ recent[Len(recent)] = last.value

\* C38: the list and the map hold the same values, the list each of them
\* once, after any sequence of add, has, delete, clear, evictions and timer
\* expiries.
C38_ListMapConsistent ==
  /\ Range(set.list) = Range(set.keys)
  /\ Len(set.list) = Cardinality(Range(set.list))
  /\ Len(set.keys) = Len(set.list)

\* C38 witness: a timer has removed one of several values after a has hit
\* had rearranged the list, which no longer is in the order of the map.
C38_Witness ==
  /\ last.op = "timeout" /\ last.had
  /\ SetSize(set) >= 2
  /\ set.list # set.keys
  /\ last.value \notin Range(set.list) /\ last.value \notin Range(set.keys)


Attempts(n, p) == Sum([s \in Seqno |-> SendsTo(n, s, p)], Seqno)

====
